---------------------------- MODULE Spec2Model ----------------------------
(***************************************************************************)
(* lastfm-rs, src/user/top_artists.rs: the user.getTopArtists request      *)
(* builder (TopArtists::build, the add_param! setters, send) and the       *)
(* decoding of the response body into TopArtists / LastFMError.            *)
(*                                                                         *)
(* A JSON value is modelled structurally: a string is [str |-> s], a       *)
(* number is [num |-> n], an array is a sequence and an object is a        *)
(* function from its keys to JSON values.  A response body is either a     *)
(* byte stream that is not valid UTF-8, a text that is not JSON, or a      *)
(* text holding one JSON object.                                           *)
(***************************************************************************)
EXTENDS Integers, Sequences, FiniteSets, TLC

(***************************************************************************)
(* Bounds of the model.                                                    *)
(***************************************************************************)
NumBuilders == 2
MaxArtists == 2

Builders == 1..NumBuilders
NoBuilder == 0

(***************************************************************************)
(* Inputs.                                                                 *)
(***************************************************************************)
Users == {"LAST.HQ", "rj"}
Limits == {1, 10}
Pages == {1, 2}
ArtistNames == {"Radiohead", "Muse"}

\* pub enum Period
Period == {"Overall", "SevenDays", "OneMonth", "ThreeMonths", "SixMonths",
           "TwelveMonths", "OneYear"}

\* The six wire tokens of the period parameter.
PeriodTokens == {"overall", "7day", "1month", "3month", "6month", "12month"}

(***************************************************************************)
(* Parameter encoding.                                                     *)
(***************************************************************************)
to_string_alias_broken(p) ==
    CASE p = "Overall"      -> "overall"
      [] p = "SevenDays"    -> "7day"
      [] p = "OneMonth"     -> "1month"
      [] p = "ThreeMonths"  -> "3month"
      [] p = "SixMonths"    -> "6month"
      [] p = "TwelveMonths" -> "12month"
      [] p = "OneYear"      -> "1year"

\* impl ToString for Period
to_string(p) ==
    CASE p = "Overall"      -> "overall"
      [] p = "SevenDays"    -> "7day"
      [] p = "OneMonth"     -> "1month"
      [] p = "ThreeMonths"  -> "3month"
      [] p = "SixMonths"    -> "6month"
      [] p = "TwelveMonths" -> "12month"
      [] p = "OneYear"      -> "12month"

Digit(d) == <<"0", "1", "2", "3", "4", "5", "6", "7", "8", "9">>[d + 1]

RECURSIVE usize_to_string(_)
\* usize::to_string: the decimal digits of n, most significant first.
usize_to_string(n) ==
    IF n < 10 THEN Digit(n)
    ELSE usize_to_string(n \div 10) \o Digit(n % 10)

(***************************************************************************)
(* The request URL: the sequence of its query pairs <<key, value>>.        *)
(***************************************************************************)
ApiKey == "KEY"

\* Client::build_url: the service's own pairs, then the given ones.
build_url(params) == <<<<"api_key", ApiKey>>, <<"format", "json">>>> \o params

HasKey(u, k) == \E i \in DOMAIN u : u[i][1] = k

\* How many pairs of u carry key k.
KeyCount(u, k) == Cardinality({i \in DOMAIN u : u[i][1] = k})

\* The values u carries under key k.
KeyValues(u, k) == {u[i][2] : i \in {j \in DOMAIN u : u[j][1] = k}}

add_param_append(u, k, v) == Append(u, <<k, v>>)

\* add_param!: the pair (k, v) is inserted, overwriting an earlier one of k.
add_param(u, k, v) ==
    IF HasKey(u, k)
    THEN [i \in DOMAIN u |-> IF u[i][1] = k THEN <<k, v>> ELSE u[i]]
    ELSE Append(u, <<k, v>>)

(***************************************************************************)
(* JSON decoding (serde).  A decode yields [ok, val] or [ok, diag].        *)
(***************************************************************************)
Str(s) == [str |-> s]
Num(n) == [num |-> n]

Ok(v) == [ok |-> TRUE, val |-> v]
Err(d) == [ok |-> FALSE, diag |-> d]

IsStr(v) == DOMAIN v = {"str"}
IsNum(v) == DOMAIN v = {"num"}
IsObject(v) == DOMAIN v \cap {"str", "num"} = {}

\* The first field of the struct, in declaration order, the object lacks.
FirstMissing(fields, obj) ==
    LET miss == {i \in DOMAIN fields : fields[i] \notin DOMAIN obj}
    IN  IF miss = {} THEN ""
        ELSE fields[CHOOSE i \in miss : \A j \in miss : i <= j]

\* Some listed key of the object holds something other than a string.
BadString(fields, obj) ==
    \E i \in DOMAIN fields : fields[i] \in DOMAIN obj /\ ~IsStr(obj[fields[i]])

\* Decoding a struct whose fields are all strings: each listed key must be
\* there and hold a string.  "" when the struct decodes, else the diagnostic.
StringFields(fields, obj, what) ==
    IF ~IsObject(obj) THEN "invalid type: expected struct " \o what
    ELSE IF BadString(fields, obj) THEN "invalid type: expected a string"
    ELSE IF FirstMissing(fields, obj) # ""
    THEN "missing field " \o FirstMissing(fields, obj)
    ELSE ""

\* The first element of a sequence of decode results that failed, or 0.
FirstFailed(rs) ==
    LET bad == {i \in DOMAIN rs : ~rs[i].ok}
    IN  IF bad = {} THEN 0 ELSE CHOOSE i \in bad : \A j \in bad : i <= j

\* Vec<T> from the decode results of its elements: every element decodes,
\* in order, or the first failure is the failure of the whole.
CollectVec(rs) ==
    IF FirstFailed(rs) = 0 THEN Ok([i \in DOMAIN rs |-> rs[i].val])
    ELSE rs[FirstFailed(rs)]

ImageFields == <<"size", "#text">>

\* struct Image
DecodeImage(v) ==
    LET d == StringFields(ImageFields, v, "Image")
    IN  IF d # "" THEN Err(d)
        ELSE Ok([image_size |-> v["size"].str, image_url |-> v["#text"].str])

\* Vec<Image>
DecodeImages(arr) == CollectVec([i \in DOMAIN arr |-> DecodeImage(arr[i])])

\* struct ArtistAttributes
DecodeArtistAttributes(v) ==
    LET d == StringFields(<<"rank">>, v, "ArtistAttributes")
    IN  IF d # "" THEN Err(d) ELSE Ok([rank |-> v["rank"].str])

ArtistStringFields == <<"mbid", "playcount", "name", "url">>
ArtistFields == <<"@attr", "mbid", "playcount", "name", "url", "image">>

\* struct Artist
DecodeArtist(v) ==
    IF ~IsObject(v) THEN Err("invalid type: expected struct Artist")
    ELSE IF BadString(ArtistStringFields, v)
    THEN Err("invalid type: expected a string")
    ELSE IF "@attr" \in DOMAIN v /\ ~DecodeArtistAttributes(v["@attr"]).ok
    THEN DecodeArtistAttributes(v["@attr"])
    ELSE IF "image" \in DOMAIN v /\ ~DecodeImages(v["image"]).ok
    THEN DecodeImages(v["image"])
    ELSE IF FirstMissing(ArtistFields, v) # ""
    THEN Err("missing field " \o FirstMissing(ArtistFields, v))
    ELSE Ok([attrs     |-> DecodeArtistAttributes(v["@attr"]).val,
             mbid      |-> v["mbid"].str,
             playcount |-> v["playcount"].str,
             name      |-> v["name"].str,
             url       |-> v["url"].str,
             images    |-> DecodeImages(v["image"]).val])

\* Vec<Artist>
DecodeArtists(arr) == CollectVec([i \in DOMAIN arr |-> DecodeArtist(arr[i])])

AttributesFields == <<"page", "total", "user", "perPage", "totalPages">>

DecodeAttributes_swapped(v) ==
    LET d == StringFields(AttributesFields, v, "Attributes")
    IN  IF d # "" THEN Err(d)
        ELSE Ok([page        |-> v["page"].str,
                 total       |-> v["total"].str,
                 user        |-> v["user"].str,
                 per_page    |-> v["totalPages"].str,
                 total_pages |-> v["perPage"].str])

\* struct Attributes
DecodeAttributes(v) ==
    LET d == StringFields(AttributesFields, v, "Attributes")
    IN  IF d # "" THEN Err(d)
        ELSE Ok([page        |-> v["page"].str,
                 total       |-> v["total"].str,
                 user        |-> v["user"].str,
                 per_page    |-> v["perPage"].str,
                 total_pages |-> v["totalPages"].str])

TopArtistsFields == <<"artist", "@attr">>

\* struct TopArtists
DecodeTopArtists(v) ==
    IF ~IsObject(v) THEN Err("invalid type: expected struct TopArtists")
    ELSE IF "artist" \in DOMAIN v /\ ~DecodeArtists(v["artist"]).ok
    THEN DecodeArtists(v["artist"])
    ELSE IF "@attr" \in DOMAIN v /\ ~DecodeAttributes(v["@attr"]).ok
    THEN DecodeAttributes(v["@attr"])
    ELSE IF FirstMissing(TopArtistsFields, v) # ""
    THEN Err("missing field " \o FirstMissing(TopArtistsFields, v))
    ELSE Ok([artists |-> DecodeArtists(v["artist"]).val,
             attrs   |-> DecodeAttributes(v["@attr"]).val])

(***************************************************************************)
(* The two shapes a body text is tried against.                            *)
(***************************************************************************)
NotJson == "expected value at line 1 column 1"

\* struct LastFMError {error, message}: a number and a string; other keys
\* of the object are ignored.
DecodeLastFMError(text) ==
    IF ~text.json THEN Err(NotJson)
    ELSE IF "error" \in DOMAIN text.obj /\ ~IsNum(text.obj["error"])
    THEN Err("invalid type: expected a number")
    ELSE IF "message" \in DOMAIN text.obj /\ ~IsStr(text.obj["message"])
    THEN Err("invalid type: expected a string")
    ELSE IF FirstMissing(<<"error", "message">>, text.obj) # ""
    THEN Err("missing field " \o FirstMissing(<<"error", "message">>, text.obj))
    ELSE Ok([error |-> text.obj["error"].num, message |-> text.obj["message"].str])

\* struct User: the outer envelope; its topartists member is optional.
DecodeUser(text) ==
    IF ~text.json THEN Err(NotJson)
    ELSE IF "topartists" \notin DOMAIN text.obj
    THEN Ok([top_artists |-> [some |-> FALSE]])
    ELSE IF ~DecodeTopArtists(text.obj["topartists"]).ok
    THEN DecodeTopArtists(text.obj["topartists"])
    ELSE Ok([top_artists |->
                [some |-> TRUE, val |-> DecodeTopArtists(text.obj["topartists"]).val]])

\* lastm_error.into(): the service's code and message, as the error value.
into(e) == [code |-> e.error, message |-> e.message]

\* Response::read_to_string: the body's bytes as text, if they are UTF-8.
read_to_string(body) == IF body.utf8 THEN Ok(body.text) ELSE Err("stream did not contain valid UTF-8")

(***************************************************************************)
(* RequestBuilder<TopArtists>::send, from the transport's answer on: the   *)
(* value send() returns (kind Panic: it does not return, an unwrap() of a  *)
(* failure aborts it), and which of the two decodes were run.              *)
(***************************************************************************)
Outcome(r, te, tu) == r @@ [triedError |-> te, triedUser |-> tu]

Resolve_success_first(resp) ==
    IF ~resp.ok
    THEN Outcome([kind |-> "HTTPError", err |-> resp.err], FALSE, FALSE)
    ELSE IF ~read_to_string(resp.body).ok
    THEN Outcome([kind |-> "Panic", at |-> "read_to_string"], FALSE, FALSE)
    ELSE LET body == read_to_string(resp.body).val
             e == DecodeLastFMError(body)
             u == DecodeUser(body)
         IN  IF u.ok /\ u.val.top_artists.some
             THEN Outcome([kind |-> "Ok", payload |-> u.val.top_artists.val], FALSE, TRUE)
             ELSE IF e.ok
             THEN Outcome([kind |-> "LastFMError", error |-> into(e.val)], TRUE, TRUE)
             ELSE IF ~u.ok
             THEN Outcome([kind |-> "ParsingError", diag |-> u.diag], TRUE, TRUE)
             ELSE Outcome([kind |-> "Panic", at |-> "top_artists"], TRUE, TRUE)

Resolve_empty_on_failure(resp) ==
    IF ~resp.ok
    THEN Outcome([kind |-> "HTTPError", err |-> resp.err], FALSE, FALSE)
    ELSE IF ~read_to_string(resp.body).ok
    THEN Outcome([kind |-> "Panic", at |-> "read_to_string"], FALSE, FALSE)
    ELSE LET body == read_to_string(resp.body).val
             e == DecodeLastFMError(body)
             u == DecodeUser(body)
         IN  IF e.ok
             THEN Outcome([kind |-> "LastFMError", error |-> into(e.val)], TRUE, FALSE)
             ELSE IF ~u.ok
             THEN Outcome([kind |-> "Ok", payload |-> [artists |-> <<>>]], TRUE, TRUE)
             ELSE IF ~u.val.top_artists.some
             THEN Outcome([kind |-> "Panic", at |-> "top_artists"], TRUE, TRUE)
             ELSE Outcome([kind |-> "Ok", payload |-> u.val.top_artists.val], TRUE, TRUE)

Resolve_failure_as_body(resp) ==
    IF ~resp.ok
    THEN Outcome([kind |-> "ParsingError", diag |-> NotJson], TRUE, TRUE)
    ELSE IF ~read_to_string(resp.body).ok
    THEN Outcome([kind |-> "Panic", at |-> "read_to_string"], FALSE, FALSE)
    ELSE LET body == read_to_string(resp.body).val
             e == DecodeLastFMError(body)
             u == DecodeUser(body)
         IN  IF e.ok
             THEN Outcome([kind |-> "LastFMError", error |-> into(e.val)], TRUE, FALSE)
             ELSE IF ~u.ok
             THEN Outcome([kind |-> "ParsingError", diag |-> u.diag], TRUE, TRUE)
             ELSE IF ~u.val.top_artists.some
             THEN Outcome([kind |-> "Panic", at |-> "top_artists"], TRUE, TRUE)
             ELSE Outcome([kind |-> "Ok", payload |-> u.val.top_artists.val], TRUE, TRUE)

\* send(), lines 107-121: the match on the transport's answer.
Resolve(resp) ==
    IF ~resp.ok
    THEN Outcome([kind |-> "HTTPError", err |-> resp.err], FALSE, FALSE)
    ELSE IF ~read_to_string(resp.body).ok
    THEN Outcome([kind |-> "Panic", at |-> "read_to_string"], FALSE, FALSE)
    ELSE LET body == read_to_string(resp.body).val
             e == DecodeLastFMError(body)
             u == DecodeUser(body)
         IN  IF e.ok
             THEN Outcome([kind |-> "LastFMError", error |-> into(e.val)], TRUE, FALSE)
             ELSE IF ~u.ok
             THEN Outcome([kind |-> "ParsingError", diag |-> u.diag], TRUE, TRUE)
             ELSE IF ~u.val.top_artists.some
             THEN Outcome([kind |-> "Panic", at |-> "top_artists"], TRUE, TRUE)
             ELSE Outcome([kind |-> "Ok", payload |-> u.val.top_artists.val], TRUE, TRUE)

(***************************************************************************)
(* What the transport can answer.                                          *)
(***************************************************************************)
Obj(k, v) == k :> v

ImageJson == Obj("size", Str("small")) @@ Obj("#text", Str("http://img/small.png"))

\* One entry of the service's artist list, ranked by its place in the list.
ArtistJson(name, rank) ==
    Obj("@attr", Obj("rank", Str(usize_to_string(rank)))) @@ Obj("mbid", Str(""))
    @@ Obj("playcount", Str("42")) @@ Obj("name", Str(name))
    @@ Obj("url", Str("https://www.last.fm/music/" \o name))
    @@ Obj("image", <<ImageJson>>)

\* The artist lists of at most MaxArtists entries.
ArtistLists ==
    UNION {[1..n -> ArtistNames] : n \in 0..MaxArtists}

ArtistListJson(names) == [i \in DOMAIN names |-> ArtistJson(names[i], i)]

AttrJson(total, perPage) ==
    Obj("page", Str("1")) @@ Obj("total", total) @@ Obj("user", Str("LAST.HQ"))
    @@ Obj("perPage", Str(perPage)) @@ Obj("totalPages", Str("5"))

TopArtistsJson(artists, attr) == Obj("artist", artists) @@ Obj("@attr", attr)

ErrorJson(code, message) == Obj("error", code) @@ Obj("message", Str(message))

\* The success-shaped objects: {"topartists": {"artist": [...], "@attr": {...}}}.
SuccessObjects ==
    {Obj("topartists", TopArtistsJson(ArtistListJson(names), AttrJson(Str("50"), "10")))
        : names \in ArtistLists}
    \cup {Obj("topartists", TopArtistsJson(ArtistListJson(<<"Muse">>), AttrJson(Str("7"), "5")))}

\* The error-shaped objects: {"error": code, "message": text}, alone or
\* beside a well-formed topartists member.
ErrorObjects ==
    {ErrorJson(Num(6), "User not found"), ErrorJson(Num(10), "Invalid API key"),
     ErrorJson(Num(6), "User not found")
        @@ Obj("topartists", TopArtistsJson(ArtistListJson(<<"Radiohead">>),
                                            AttrJson(Str("50"), "10")))}

\* Objects of neither shape, or of a shape gone wrong.
OtherObjects ==
    {<<>>,
     ErrorJson(Str("6"), "User not found"),
     Obj("message", Str("User not found")),
     Obj("topartists", Str("none")),
     Obj("topartists", Obj("artist", <<>>)),
     Obj("topartists", TopArtistsJson(ArtistListJson(<<"Muse">>), AttrJson(Num(50), "10"))),
     Obj("topartists", TopArtistsJson(<<Obj("name", Str("Muse"))>>, AttrJson(Str("50"), "10")))}

JsonText(obj) == [json |-> TRUE, obj |-> obj]

Texts == {[json |-> FALSE]} \cup {JsonText(o) : o \in SuccessObjects \cup ErrorObjects \cup OtherObjects}

Bodies == {[utf8 |-> FALSE]} \cup {[utf8 |-> TRUE, text |-> t] : t \in Texts}

\* Client::request: a transport failure, or a response with a body.
Responses ==
    {[ok |-> FALSE, err |-> "connection refused"]}
    \cup {[ok |-> TRUE, body |-> b] : b \in Bodies}

(***************************************************************************)
(* State.                                                                  *)
(***************************************************************************)
VARIABLES
    bstate,     \* per builder: Unborn, Building, Sent, Panicked or Dropped
    holder,     \* the builder holding the &mut Client, or NoBuilder
    url,        \* per builder: RequestBuilder.url, its query pairs
    user_arg,   \* per builder: the user given to top_artists()
    calls,      \* per builder: the setters called, each one's last value
    requested,  \* per builder: the URL its send() gave to Client::request
    response,   \* per builder: what the transport answered
    result,     \* per builder: what send() came to
    sends,      \* send() calls so far
    requests    \* Client::request calls so far

vars == <<bstate, holder, url, user_arg, calls, requested, response, result, sends, requests>>

Live == {"Building", "Sent", "Panicked"}

\* No setter called yet.  again: the key last set a second or later time.
NoCalls ==
    [limit  |-> [called |-> FALSE, last |-> 0],
     page   |-> [called |-> FALSE, last |-> 0],
     period |-> [called |-> FALSE, last |-> ""],
     again  |-> ""]

\* The record of the calls, after the setter of key was called with v.
Called(c, key, v) ==
    [c EXCEPT ![key] = [called |-> TRUE, last |-> v],
              !.again = IF c[key].called THEN key ELSE @]

NoResponse == [ok |-> FALSE, err |-> ""]
NoResult == [kind |-> "None"]

Init ==
    /\ bstate = [b \in Builders |-> "Unborn"]
    /\ holder = NoBuilder
    /\ url = [b \in Builders |-> <<>>]
    /\ user_arg = [b \in Builders |-> ""]
    /\ calls = [b \in Builders |-> NoCalls]
    /\ requested = [b \in Builders |-> <<>>]
    /\ response = [b \in Builders |-> NoResponse]
    /\ result = [b \in Builders |-> NoResult]
    /\ sends = 0
    /\ requests = 0

(***************************************************************************)
(* Operations.                                                             *)
(***************************************************************************)
\* The builders are numbered in the order they are made.
Fresh(b) == bstate[b] = "Unborn" /\ \A c \in Builders : c < b => bstate[c] # "Unborn"

build_shared(b, user) ==
    /\ Fresh(b)
    /\ bstate' = [bstate EXCEPT ![b] = "Building"]
    /\ holder' = b
    /\ url' = [url EXCEPT ![b] = build_url(<<<<"method", "user.getTopArtists">>, <<"user", user>>>>)]
    /\ user_arg' = [user_arg EXCEPT ![b] = user]
    /\ UNCHANGED <<calls, requested, response, result, sends, requests>>

build_fixed_user(b, user) ==
    /\ Fresh(b)
    /\ holder = NoBuilder
    /\ bstate' = [bstate EXCEPT ![b] = "Building"]
    /\ holder' = b
    /\ url' = [url EXCEPT ![b] = build_url(<<<<"method", "user.getTopArtists">>, <<"user", "LAST.HQ">>>>)]
    /\ user_arg' = [user_arg EXCEPT ![b] = user]
    /\ UNCHANGED <<calls, requested, response, result, sends, requests>>

\* TopArtists::build(client: &'a mut Client, user): the builder takes the
\* exclusive borrow of the client, which nothing else may hold, and keeps it.
build(b, user) ==
    /\ Fresh(b)
    /\ holder = NoBuilder
    /\ bstate' = [bstate EXCEPT ![b] = "Building"]
    /\ holder' = b
    /\ url' = [url EXCEPT ![b] = build_url(<<<<"method", "user.getTopArtists">>, <<"user", user>>>>)]
    /\ user_arg' = [user_arg EXCEPT ![b] = user]
    /\ UNCHANGED <<calls, requested, response, result, sends, requests>>

\* Client::top_artists
top_artists(b, user) == build(b, user)

\* A setter's effect on the builder: self.url gets the pair, nothing else moves.
set_param(b, key, value) ==
    /\ bstate[b] = "Building"
    /\ url' = [url EXCEPT ![b] = add_param(@, key, value)]
    /\ UNCHANGED <<bstate, holder, user_arg, requested, response, result, sends, requests>>

\* add_param!(with_limit, limit, usize)
with_limit(b, v) ==
    /\ set_param(b, "limit", usize_to_string(v))
    /\ calls' = [calls EXCEPT ![b] = Called(@, "limit", v)]

\* add_param!(with_period, period, Period)
with_period(b, p) ==
    /\ set_param(b, "period", to_string(p))
    /\ calls' = [calls EXCEPT ![b] = Called(@, "period", p)]

with_page_as_limit(b, v) ==
    /\ set_param(b, "limit", usize_to_string(v))
    /\ calls' = [calls EXCEPT ![b] = Called(@, "page", v)]

\* add_param!(with_page, page, usize)
with_page(b, v) ==
    /\ set_param(b, "page", usize_to_string(v))
    /\ calls' = [calls EXCEPT ![b] = Called(@, "page", v)]

send_retrying(b, resp) ==
    /\ bstate[b] = "Building"
    /\ sends' = sends + 1
    /\ requests' = requests + (IF resp.ok THEN 1 ELSE 2)
    /\ requested' = [requested EXCEPT ![b] = url[b]]
    /\ response' = [response EXCEPT ![b] = resp]
    /\ result' = [result EXCEPT ![b] = Resolve(resp)]
    /\ bstate' = [bstate EXCEPT ![b] = IF Resolve(resp).kind = "Panic" THEN "Panicked" ELSE "Sent"]
    /\ UNCHANGED <<holder, url, user_arg, calls>>

\* RequestBuilder<TopArtists>::send(&'a mut self): one self.client.request
\* of self.url, whose answer resp decides what is returned.
send(b, resp) ==
    /\ bstate[b] = "Building"
    /\ sends' = sends + 1
    /\ requests' = requests + 1
    /\ requested' = [requested EXCEPT ![b] = url[b]]
    /\ response' = [response EXCEPT ![b] = resp]
    /\ result' = [result EXCEPT ![b] = Resolve(resp)]
    /\ bstate' = [bstate EXCEPT ![b] = IF Resolve(resp).kind = "Panic" THEN "Panicked" ELSE "Sent"]
    /\ UNCHANGED <<holder, url, user_arg, calls>>

\* The end of the builder's lifetime 'a: its borrow of the client ends with it.
drop(b) ==
    /\ bstate[b] \in Live
    /\ bstate' = [bstate EXCEPT ![b] = "Dropped"]
    /\ holder' = IF holder = b THEN NoBuilder ELSE holder
    /\ url' = [url EXCEPT ![b] = <<>>]
    /\ user_arg' = [user_arg EXCEPT ![b] = ""]
    /\ calls' = [calls EXCEPT ![b] = NoCalls]
    /\ requested' = [requested EXCEPT ![b] = <<>>]
    /\ response' = [response EXCEPT ![b] = NoResponse]
    /\ result' = [result EXCEPT ![b] = NoResult]
    /\ UNCHANGED <<sends, requests>>

Next ==
    \E b \in Builders :
        \/ \E u \in Users : top_artists(b, u)
        \/ \E v \in Limits : with_limit(b, v)
        \/ \E p \in Period : with_period(b, p)
        \/ \E v \in Pages : with_page(b, v)
        \/ \E resp \in Responses : send(b, resp)
        \/ drop(b)

Spec == Init /\ [][Next]_vars

(***************************************************************************)
(* Properties.                                                             *)
(***************************************************************************)
\* The builders whose send() has been called.
Sending == {b \in Builders : bstate[b] \in {"Sent", "Panicked"}}

\* The builders whose send() got a response with a body readable as text.
WithText == {b \in Sending : response[b].ok /\ response[b].body.utf8}

TextOf(b) == response[b].body.text

OptionalKeys == {"limit", "page", "period"}

\* The wire value of the last call of the setter of key.
Encoded(b, key) ==
    IF key = "period" THEN to_string(calls[b][key].last)
    ELSE usize_to_string(calls[b][key].last)

\* C1: every send() comes to exactly one of the four results: a success
\* payload, an HTTPError, a LastFMError or a ParsingError, whatever the
\* transport answers.
C1_OneOfFourResults ==
    \A b \in Sending :
        result[b].kind \in {"Ok", "HTTPError", "LastFMError", "ParsingError"}

\* C2: a body that decodes as the error shape {error, message} gives a
\* LastFMError with that code and message, and the success decode is not
\* run, also when the body would decode as the success envelope too.
C2_ErrorShapeWins ==
    \A b \in WithText :
        DecodeLastFMError(TextOf(b)).ok =>
            /\ result[b].kind = "LastFMError"
            /\ result[b].error.code = DecodeLastFMError(TextOf(b)).val.error
            /\ result[b].error.message = DecodeLastFMError(TextOf(b)).val.message
            /\ ~result[b].triedUser

\* C2's case: an error-shaped body that is a well-formed success envelope too.
C2_Witness ==
    \E b \in WithText :
        /\ DecodeLastFMError(TextOf(b)).ok
        /\ DecodeUser(TextOf(b)).ok
        /\ DecodeUser(TextOf(b)).val.top_artists.some
        /\ result[b].kind = "LastFMError"
        /\ result[b].error.code = 6

\* C3: a body that decodes neither as the error shape nor as the success
\* envelope gives a ParsingError carrying the diagnostic of the success
\* decode; no body that decodes as neither gives a success payload.
C3_NeitherShapeIsParsingError ==
    /\ \A b \in WithText :
          (~DecodeLastFMError(TextOf(b)).ok /\ ~DecodeUser(TextOf(b)).ok) =>
              /\ result[b].kind = "ParsingError"
              /\ result[b].diag = DecodeUser(TextOf(b)).diag
    /\ \A b \in Sending \ WithText : result[b].kind # "Ok"

\* C3's case: neither decode succeeds, and the two diagnostics differ.
C3_Witness ==
    \E b \in WithText :
        /\ ~DecodeLastFMError(TextOf(b)).ok
        /\ ~DecodeUser(TextOf(b)).ok
        /\ DecodeLastFMError(TextOf(b)).diag # DecodeUser(TextOf(b)).diag
        /\ result[b].kind = "ParsingError"

\* C4: a failed transport call gives an HTTPError carrying the transport's
\* error, and neither decode is run.
C4_TransportFailureShortCircuits ==
    \A b \in Sending :
        ~response[b].ok =>
            /\ result[b].kind = "HTTPError"
            /\ result[b].err = response[b].err
            /\ ~result[b].triedError
            /\ ~result[b].triedUser

\* C4's case: a send() whose transport call failed.
C4_Witness ==
    \E b \in Sending : ~response[b].ok /\ result[b].kind = "HTTPError"

\* C5: there are as many transport requests as send() calls (so building
\* and the setters make none), a builder not yet sent has requested
\* nothing, and a send() requests the URL the builder had accumulated.
C5_OneRequestPerSend ==
    /\ requests = sends
    /\ \A b \in Builders :
          /\ bstate[b] = "Building" => requested[b] = <<>>
          /\ b \in Sending => requested[b] = url[b]

\* C5's case: two sends done, the second after setter calls.
C5_Witness ==
    /\ sends = 2
    /\ \E b \in Sending :
          /\ calls[b].limit.called
          /\ calls[b].period.called
          /\ HasKey(requested[b], "limit")

\* C6 as claimed: a builder that is not inside send() does not hold the
\* client, which is free for other builders.
C6_ClientFreeOutsideSend ==
    \A b \in Builders : bstate[b] \in Live => holder # b

\* C6 as amended: a builder holds the client exclusively from its creation
\* until its lifetime ends, so at most one builder exists over the client
\* at a time.
C6_ExclusiveBorrow ==
    /\ \A b \in Builders : bstate[b] \in Live <=> holder = b
    /\ Cardinality({b \in Builders : bstate[b] \in Live}) <= 1

\* C6's case: a second builder made, and sent, once the first was gone.
C6_Witness ==
    /\ bstate[1] = "Dropped"
    /\ bstate[2] = "Sent"
    /\ holder = 2

\* C7: an optional parameter set by a builder is in its request exactly
\* once, with the value of the latest call of its setter.
C7_LatestValueOnce ==
    \A b \in Sending : \A key \in OptionalKeys :
        calls[b][key].called =>
            /\ KeyCount(requested[b], key) = 1
            /\ KeyValues(requested[b], key) = {Encoded(b, key)}

\* C7's case: a request sent after the period was set more than once.
C7_Witness ==
    \E b \in Sending :
        /\ calls[b].again = "period"
        /\ calls[b].limit.called
        /\ KeyValues(requested[b], "period") = {"7day"}

\* C8: to_string maps every Period to one of the six tokens, TwelveMonths
\* and OneYear to the same token 12month, and the other five variants to
\* pairwise distinct tokens; a period a builder carries is such a token.
C8_PeriodTokens ==
    /\ \A p \in Period : to_string(p) \in PeriodTokens
    /\ to_string("TwelveMonths") = "12month"
    /\ to_string("OneYear") = to_string("TwelveMonths")
    /\ \A p, q \in Period \ {"TwelveMonths", "OneYear"} :
          p # q => to_string(p) # to_string(q)
    /\ \A b \in Builders : KeyValues(url[b], "period") \subseteq PeriodTokens

\* C8's case: with_period(OneYear) has put 12month into the URL.
C8_Witness ==
    \E b \in Builders :
        /\ calls[b].period.last = "OneYear"
        /\ KeyValues(url[b], "period") = {"12month"}

\* The builders that got a success-shaped body.
GotSuccessBody ==
    {b \in WithText : TextOf(b).json /\ TextOf(b).obj \in SuccessObjects}

\* C9: a success-shaped body gives Ok with the inner payload: as many
\* artists as the body lists, in the body's order, and the five attrs
\* strings of the body unchanged.
C9_PayloadAsInBody ==
    \A b \in GotSuccessBody :
        LET src == TextOf(b).obj["topartists"]
            got == result[b].payload
        IN  /\ result[b].kind = "Ok"
            /\ Len(got.artists) = Len(src["artist"])
            /\ \A i \in DOMAIN src["artist"] :
                  /\ got.artists[i].name = src["artist"][i]["name"].str
                  /\ got.artists[i].attrs.rank = src["artist"][i]["@attr"]["rank"].str
            /\ got.attrs.page = src["@attr"]["page"].str
            /\ got.attrs.total = src["@attr"]["total"].str
            /\ got.attrs.user = src["@attr"]["user"].str
            /\ got.attrs.per_page = src["@attr"]["perPage"].str
            /\ got.attrs.total_pages = src["@attr"]["totalPages"].str

\* C9's case: period and limit set, and a body of two different artists.
C9_Witness ==
    \E b \in GotSuccessBody :
        /\ calls[b].period.called
        /\ calls[b].limit.called
        /\ result[b].kind = "Ok"
        /\ Len(result[b].payload.artists) = 2
        /\ result[b].payload.artists[1].name # result[b].payload.artists[2].name
        /\ result[b].payload.attrs.total = "50"

\* C10: the request carries method=user.getTopArtists and the user given
\* to top_artists(), each once, and an optional key exactly if its setter
\* was called.
C10_MethodAndUserFixed ==
    \A b \in Sending :
        /\ KeyCount(requested[b], "method") = 1
        /\ KeyValues(requested[b], "method") = {"user.getTopArtists"}
        /\ KeyCount(requested[b], "user") = 1
        /\ KeyValues(requested[b], "user") = {user_arg[b]}
        /\ \A key \in OptionalKeys : HasKey(requested[b], key) <=> calls[b][key].called

\* C10's case: user rj, limit and period set, page never set.
C10_Witness ==
    \E b \in Sending :
        /\ user_arg[b] = "rj"
        /\ calls[b].limit.called
        /\ calls[b].period.called
        /\ ~calls[b].page.called
        /\ ~HasKey(requested[b], "page")

=============================================================================
